---- MODULE Spec2Model ----
(***************************************************************************)
(* The metrics engine of the gateway (package model, type Analysis): live  *)
(* per-key counter points, per-(key, interval) Recently windows fed by one *)
(* ticker-driven goroutine each, and the accessors reading them.           *)
(*                                                                         *)
(* Every method of Analysis that takes the registry lock is one action:    *)
(* it runs from Lock/RLock to the matching unlock (or to the panic that    *)
(* ends it).  A goroutine that panics is dead; the rest of the program is  *)
(* modelled as going on (a caller that recovers), which includes, as       *)
(* prefixes, every run of a program that dies at the panic.                *)
(*                                                                         *)
(* The goroutine of a window takes no lock.  Its record is one action in   *)
(* most specifications and, in SpecDump, one action per statement of       *)
(* point.dump, with AddRecentCount split at its a.Lock().                  *)
(***************************************************************************)
EXTENDS Integers, Sequences, FiniteSets, TLC

VARIABLES
    points,          \* Analysis.points: map[string]*point
    recentlyPoints,  \* Analysis.recentlyPoints: map[string]map[time.Duration]*Recently
    mu,              \* Analysis.RWMutex: "unlocked", or "locked" by a goroutine that died holding it
    tasks,           \* the goroutines started through taskRunner, with their tickers
    cancelled,       \* the task runner's context is done
    panics,          \* the run-time panics raised so far, by cause
    ret,             \* the most recent accessor call: whether its lookup found the
                     \* window (or the point), and the value it returned
    hist             \* history: the events so far, and what has been observed of
                     \* each key and of each ticking window

vars == <<points, recentlyPoints, mu, tasks, cancelled, panics, ret, hist>>

----------------------------------------------------------------------------
(* Bounds of the model.  Events are the hot-path calls (Request, Reject,    *)
(* Failure, Response), the windows inserted by AddRecentCount and the ticks *)
(* taken from the tickers, counted together over one behaviour.             *)

\* Spec: events, and entries of recentlyPoints
MaxEvents == 4
MaxWindows == 1
\* SpecRead: events, and entries of recentlyPoints
MaxReadEvents == 4
MaxReadWindows == 1
\* SpecSteady: events
MaxSteadyEvents == 8
\* SpecScenario: the calls of the scenario and the ticks it lasts
ScenarioTicks == 2
\* SpecWindows: events
MaxWindowEvents == 6
\* SpecDump: events
MaxDumpEvents == 5

(* Program constants *)

\* time.Second, in nanoseconds (time.Duration's unit)
Second == 1000000000
Keys == {"a", "b"}

\* the intervals handed to AddRecentCount: negative, zero, below one second,
\* one second, two seconds
Intervals == {0 - Second, 0, Second \div 2, Second, 2 * Second}

\* the latencies handed to Response, in nanoseconds: 2ms and 50ms
Costs == {2000000, 50000000}

----------------------------------------------------------------------------
(* Go arithmetic *)

\* Go's integer division truncates toward zero; b # 0
GoDiv(a, b) ==
    IF (a >= 0) = (b > 0)
    THEN (IF a >= 0 THEN a ELSE 0 - a) \div (IF b >= 0 THEN b ELSE 0 - b)
    ELSE 0 - ((IF a >= 0 THEN a ELSE 0 - a) \div (IF b >= 0 THEN b ELSE 0 - b))

----------------------------------------------------------------------------
(* point and Recently *)

newPoint ==
    [requests |-> 0, rejects |-> 0, failure |-> 0, successed |-> 0,
     continuousFailure |-> 0, costs |-> 0, max |-> 0, min |-> 0]

\* a window whose first record goes into current
newRecently_startsWithCurrent(period) ==
    [period |-> period, prev |-> newPoint, current |-> newPoint,
     dumpCurr |-> TRUE, qps |-> 0, requests |-> 0, successed |-> 0,
     failure |-> 0, rejects |-> 0, max |-> 0, min |-> 0, avg |-> 0]

newRecently(period) ==
    [period |-> period, prev |-> newPoint, current |-> newPoint,
     dumpCurr |-> FALSE, qps |-> 0, requests |-> 0, successed |-> 0,
     failure |-> 0, rejects |-> 0, max |-> 0, min |-> 0, avg |-> 0]

\* p.dump(target): the target after the copy (continuousFailure is not copied)
dumpTarget(p, target) ==
    [target EXCEPT !.requests = p.requests, !.rejects = p.rejects,
                   !.failure = p.failure, !.successed = p.successed,
                   !.max = p.max, !.min = p.min, !.costs = p.costs]

\* a dump that leaves the live extremes as they are
dumpSource_keepsExtremes(p) == p

\* p.dump(target): the live point after the copy
dumpSource(p) == [p EXCEPT !.min = 0, !.max = 0]

Clamp(x) == IF x < 0 THEN 0 ELSE x

\* a calc that subtracts the newer snapshot from the older one and does not
\* clamp
calcFields_reversedUnclamped(r) ==
    LET requests == r.prev.requests - r.current.requests
        costs    == r.current.costs - r.prev.costs
    IN  [r EXCEPT
          !.requests  = requests,
          !.successed = r.prev.successed - r.current.successed,
          !.failure   = r.prev.failure - r.current.failure,
          !.rejects   = r.prev.rejects - r.current.rejects,
          !.max       = GoDiv(GoDiv(r.current.max, 1000), 1000),
          !.min       = GoDiv(GoDiv(r.current.min, 1000), 1000),
          !.avg       = IF requests = 0 THEN 0
                        ELSE GoDiv(GoDiv(GoDiv(costs, 1000), 1000), requests)]

\* r.calc() up to line 142: every derived field except qps
calcFields(r) ==
    LET requests == Clamp(r.current.requests - r.prev.requests)
        costs    == r.current.costs - r.prev.costs
    IN  [r EXCEPT
          !.requests  = requests,
          !.successed = Clamp(r.current.successed - r.prev.successed),
          !.failure   = Clamp(r.current.failure - r.prev.failure),
          !.rejects   = Clamp(r.current.rejects - r.prev.rejects),
          !.max       = IF r.current.max < 0 THEN 0
                        ELSE GoDiv(GoDiv(r.current.max, 1000), 1000),
          !.min       = IF r.current.min < 0 THEN 0
                        ELSE GoDiv(GoDiv(r.current.min, 1000), 1000),
          !.avg       = IF requests = 0 THEN 0
                        ELSE GoDiv(GoDiv(GoDiv(costs, 1000), 1000), requests)]

\* int64(r.period / time.Second), the divisor of lines 145 and 147
periodSeconds(r) == GoDiv(r.period, Second)

\* r.calc() panics (integer divide by zero) when the period has no whole second
calcPanics(r) == periodSeconds(r) = 0

\* lines 144-148: the qps assignment, for a non-zero divisor
calcQps(r) ==
    IF r.successed > r.requests
    THEN GoDiv(r.requests, periodSeconds(r))
    ELSE GoDiv(r.successed, periodSeconds(r))

\* r.calc(): the window after it; on a panic the fields assigned before the
\* division keep their new values and qps keeps its old one
calc(r) ==
    LET f == calcFields(r)
    IN  IF calcPanics(f) THEN f ELSE [f EXCEPT !.qps = calcQps(f)]

\* r.record(p) panics exactly when it reaches a panicking calc
recordPanics(r) == r.dumpCurr /\ calcPanics(r)

\* a record that keeps writing current once it has recalculated
recordWindow_noFlipAfterCalc(r, p) ==
    IF r.dumpCurr
    THEN calc([r EXCEPT !.current = dumpTarget(p, r.current)])
    ELSE [r EXCEPT !.prev = dumpTarget(p, r.prev), !.dumpCurr = ~r.dumpCurr]

\* a record that recalculates on every call, whichever buffer it wrote
recordWindow_calcOnEveryCall(r, p) ==
    LET d == IF r.dumpCurr
             THEN [r EXCEPT !.current = dumpTarget(p, r.current)]
             ELSE [r EXCEPT !.prev = dumpTarget(p, r.prev)]
    IN  IF calcPanics(r) THEN calc(d)
        ELSE [calc(d) EXCEPT !.dumpCurr = ~r.dumpCurr]

\* r.record(p): the window after it (dumpCurr is not flipped after a panic)
recordWindow(r, p) ==
    IF r.dumpCurr
    THEN LET c == calc([r EXCEPT !.current = dumpTarget(p, r.current)])
         IN  IF calcPanics(r) THEN c ELSE [c EXCEPT !.dumpCurr = ~r.dumpCurr]
    ELSE [r EXCEPT !.prev = dumpTarget(p, r.prev), !.dumpCurr = ~r.dumpCurr]

----------------------------------------------------------------------------
(* The registry *)

HasPoint(key) == key \in DOMAIN points

HasWindow(key, interval) ==
    key \in DOMAIN recentlyPoints /\ interval \in DOMAIN recentlyPoints[key]

\* the entries of the nested map, as (key, interval) pairs
Windows == {w \in Keys \X Intervals : HasWindow(w[1], w[2])}

\* the events counted against the bounds of the model
Events == hist.events

\* history: a completed Request(key) is one more request since the last
\* record of each of the key's ticking windows
histRequest(key) ==
    [hist EXCEPT !.events = @ + 1,
                 !.requested[key] = @ + 1,
                 !.win = [w \in DOMAIN hist.win |->
                    IF w[1] = key THEN [hist.win[w] EXCEPT !.since = @ + 1]
                    ELSE hist.win[w]]]

\* history: a completed Response(key, cost) ends the key's streak of
\* failures, and is seen by the separate extremes kept for each of the key's
\* windows (own), which only that window's records reset
histResponse(key, cost) ==
    [hist EXCEPT !.events = @ + 1,
                 !.streak[key] = 0,
                 !.win = [w \in DOMAIN hist.win |->
                    IF w[1] = key
                    THEN [hist.win[w] EXCEPT
                            !.ownMax = IF @ < cost THEN cost ELSE @,
                            !.ownMin = IF @ = 0 \/ @ > cost THEN cost ELSE @]
                    ELSE hist.win[w]]]

\* history: a window is being recorded, r being the window before the call.
\* prevAt and curAt number the records that last wrote each buffer; span is
\* the distance between the two buffers at the last recalculation, spanBefore
\* at the one before it; ownMax, ownMin, ownDerivedMax and ownDerivedMin are
\* what the live extremes and the window's derived extremes would be if no
\* other window recorded the key's point.
histRecord(w, r) ==
    LET h == hist.win[w]
        n == h.records + 1
        steady == IF h.gaps THEN h.steady /\ h.rate = h.since ELSE TRUE
    IN  [hist EXCEPT !.events = @ + 1, !.win[w] =
          [fromStart |-> h.fromStart,
           records |-> n,
           since  |-> 0,
           gaps   |-> h.records > 0,
           steady |-> IF h.records > 0 THEN steady ELSE h.steady,
           rate   |-> IF h.records > 0 /\ steady THEN h.since ELSE 0,
           calcs  |-> IF r.dumpCurr
                      THEN (IF calcPanics(r) THEN "panicked" ELSE "done")
                      ELSE h.calcs,
           prevAt |-> IF r.dumpCurr THEN h.prevAt ELSE n,
           curAt  |-> IF r.dumpCurr THEN n ELSE h.curAt,
           span   |-> IF r.dumpCurr THEN n - h.prevAt ELSE h.span,
           spanBefore |-> IF r.dumpCurr THEN h.span ELSE h.spanBefore,
           ownMax |-> 0,
           ownMin |-> 0,
           ownDerivedMax |-> IF r.dumpCurr
                             THEN GoDiv(GoDiv(h.ownMax, 1000), 1000)
                             ELSE h.ownDerivedMax,
           ownDerivedMin |-> IF r.dumpCurr
                             THEN GoDiv(GoDiv(h.ownMin, 1000), 1000)
                             ELSE h.ownDerivedMin]]

\* fromStart: the window was registered before any success of its key
newHistory(key) ==
    [fromStart |-> (HasPoint(key) => points[key].successed = 0),
     records |-> 0, since |-> 0, gaps |-> FALSE, steady |-> TRUE,
     rate |-> 0, calcs |-> "never", prevAt |-> 0, curAt |-> 0,
     span |-> 0, spanBefore |-> 0,
     ownMax |-> 0, ownMin |-> 0, ownDerivedMax |-> 0, ownDerivedMin |-> 0]

----------------------------------------------------------------------------
(* The hot path.  With no point for the key, a.points[key] is nil and the    *)
(* first counter access panics on the nil pointer, between Lock and Unlock:  *)
(* the lock stays held.                                                      *)

Reject(key) ==
    /\ mu = "unlocked"
    /\ IF HasPoint(key)
       THEN /\ points' = [points EXCEPT ![key].rejects = @ + 1]
            /\ mu' = "unlocked"
            /\ hist' = [hist EXCEPT !.events = @ + 1]
            /\ UNCHANGED panics
       ELSE /\ mu' = "locked"
            /\ panics' = panics \cup {"nil pointer dereference"}
            /\ UNCHANGED <<points, hist>>
    /\ UNCHANGED <<recentlyPoints, tasks, cancelled, ret>>

Failure(key) ==
    /\ mu = "unlocked"
    /\ IF HasPoint(key)
       THEN /\ points' = [points EXCEPT ![key].failure = @ + 1,
                                        ![key].continuousFailure = @ + 1]
            /\ mu' = "unlocked"
            /\ UNCHANGED panics
            /\ hist' = [hist EXCEPT !.events = @ + 1, !.streak[key] = @ + 1]
       ELSE /\ mu' = "locked"
            /\ panics' = panics \cup {"nil pointer dereference"}
            /\ UNCHANGED <<points, hist>>
    /\ UNCHANGED <<recentlyPoints, tasks, cancelled, ret>>

Request(key) ==
    /\ mu = "unlocked"
    /\ IF HasPoint(key)
       THEN /\ points' = [points EXCEPT ![key].requests = @ + 1]
            /\ mu' = "unlocked"
            /\ UNCHANGED panics
            /\ hist' = histRequest(key)
       ELSE /\ mu' = "locked"
            /\ panics' = panics \cup {"nil pointer dereference"}
            /\ UNCHANGED <<points, hist>>
    /\ UNCHANGED <<recentlyPoints, tasks, cancelled, ret>>

\* a Response that leaves continuousFailure as it is
Response_keepsStreak(key, cost) ==
    /\ mu = "unlocked"
    /\ IF HasPoint(key)
       THEN /\ points' = [points EXCEPT
                  ![key].successed = @ + 1,
                  ![key].costs = @ + cost,
                  ![key].max = IF @ < cost THEN cost ELSE @,
                  ![key].min = IF @ = 0 \/ @ > cost THEN cost ELSE @]
            /\ mu' = "unlocked"
            /\ UNCHANGED panics
            /\ hist' = histResponse(key, cost)
       ELSE /\ mu' = "locked"
            /\ panics' = panics \cup {"nil pointer dereference"}
            /\ UNCHANGED <<points, hist>>
    /\ UNCHANGED <<recentlyPoints, tasks, cancelled, ret>>

Response(key, cost) ==
    /\ mu = "unlocked"
    /\ IF HasPoint(key)
       THEN /\ points' = [points EXCEPT
                  ![key].successed = @ + 1,
                  ![key].costs = @ + cost,
                  ![key].continuousFailure = 0,
                  ![key].max = IF @ < cost THEN cost ELSE @,
                  ![key].min = IF @ = 0 \/ @ > cost THEN cost ELSE @]
            /\ mu' = "unlocked"
            /\ UNCHANGED panics
            /\ hist' = histResponse(key, cost)
       ELSE /\ mu' = "locked"
            /\ panics' = panics \cup {"nil pointer dereference"}
            /\ UNCHANGED <<points, hist>>
    /\ UNCHANGED <<recentlyPoints, tasks, cancelled, ret>>

----------------------------------------------------------------------------
(* Registration.  The lock is released by the deferred Unlock on every way   *)
(* out, the panic of time.NewTicker on a non-positive interval included.     *)

newTask(key, interval) ==
    [key |-> key, interval |-> interval, pc |-> "select",
     stopped |-> FALSE, pending |-> FALSE]

\* AddRecentCount from after its a.Lock() to its deferred a.Unlock()
AddRecentCountLocked(key, interval) ==
    /\ mu' = "unlocked"
    /\ UNCHANGED <<cancelled, ret>>
    /\ IF interval = 0
       THEN UNCHANGED <<points, recentlyPoints, tasks, panics, hist>>
       ELSE LET inner == IF key \in DOMAIN recentlyPoints
                         THEN recentlyPoints[key]
                         ELSE [i \in {} |-> newRecently(i)]
            IN  /\ points' = IF HasPoint(key) THEN points
                             ELSE points @@ (key :> newPoint)
                /\ IF interval \in DOMAIN inner
                   THEN /\ recentlyPoints' = recentlyPoints
                        /\ UNCHANGED <<tasks, panics, hist>>
                   ELSE /\ recentlyPoints' =
                              [k \in DOMAIN recentlyPoints \cup {key} |->
                                 IF k = key
                                 THEN inner @@ (interval :> newRecently(interval))
                                 ELSE recentlyPoints[k]]
                        /\ IF interval < 0
                           THEN /\ panics' = panics \cup {"non-positive interval for NewTicker"}
                                /\ hist' = [hist EXCEPT !.events = @ + 1]
                                /\ UNCHANGED tasks
                           ELSE /\ tasks' = Append(tasks, newTask(key, interval))
                                /\ hist' = [hist EXCEPT !.events = @ + 1, !.win =
                                      @ @@ (<<key, interval>> :> newHistory(key))]
                                /\ UNCHANGED panics

AddRecentCount(key, interval) ==
    /\ mu = "unlocked"
    /\ AddRecentCountLocked(key, interval)

\* the same call in two steps: a.Lock() of line 154 ...
AddRecentCountLock ==
    /\ mu = "unlocked"
    /\ mu' = "adding"
    /\ UNCHANGED <<points, recentlyPoints, tasks, cancelled, panics, ret, hist>>

\* ... and the rest of the call, under the lock
AddRecentCountUnderLock(key, interval) ==
    /\ mu = "adding"
    /\ AddRecentCountLocked(key, interval)

----------------------------------------------------------------------------
(* The goroutine of a window: for { select { ctx.Done / timer.C } }          *)

\* the ticker delivers a tick into timer.C, a channel of capacity one (a tick
\* that finds the channel full is dropped)
TimerFire(t) ==
    /\ ~tasks[t].stopped
    /\ ~tasks[t].pending
    /\ tasks' = [tasks EXCEPT ![t].pending = TRUE]
    /\ UNCHANGED <<points, recentlyPoints, mu, cancelled, panics, ret, hist>>

\* case <-timer.C: look the live point up and record it
TaskTick(t) ==
    LET key == tasks[t].key
        interval == tasks[t].interval
        r == recentlyPoints[key][interval]
    IN  /\ tasks[t].pc = "select"
        /\ tasks[t].pending
        /\ IF HasPoint(key)
           THEN /\ recentlyPoints' = [recentlyPoints EXCEPT
                      ![key][interval] = recordWindow(r, points[key])]
                /\ points' = [points EXCEPT ![key] = dumpSource(@)]
                /\ tasks' = [tasks EXCEPT
                      ![t].pending = FALSE,
                      ![t].pc = IF recordPanics(r) THEN "panicked" ELSE "select"]
                /\ panics' = IF recordPanics(r)
                             THEN panics \cup {"integer divide by zero"}
                             ELSE panics
                /\ hist' = histRecord(<<key, interval>>, r)
           ELSE /\ tasks' = [tasks EXCEPT ![t].pending = FALSE]
                /\ UNCHANGED <<points, recentlyPoints, panics, hist>>
        /\ UNCHANGED <<mu, cancelled, ret>>

\* case <-ctx.Done(): stop the ticker and log; the loop goes on
TaskCancel(t) ==
    /\ tasks[t].pc = "select"
    /\ cancelled
    /\ tasks' = [tasks EXCEPT ![t].stopped = TRUE]
    /\ UNCHANGED <<points, recentlyPoints, mu, cancelled, panics, ret, hist>>

\* The same goroutine step by step.  It takes no lock: the lookup of line 189
\* and every access of the live point in p.dump are steps of their own, which
\* the calls of other goroutines interleave with.  The buffers and the
\* dumpCurr flag of a window are written by its goroutine alone.

\* the steps of r.record(p), in order: the seven copies and the two resets of
\* p.dump, then the rest of record (calc after a dump into current, the flip)
RecordSteps ==
    <<"requests", "rejects", "failure", "successed", "max", "min", "costs",
      "resetMin", "resetMax", "calc">>

StepAfter(step) ==
    LET i == CHOOSE j \in 1..Len(RecordSteps) : RecordSteps[j] = step
    IN  RecordSteps[i + 1]

\* one line of p.dump(target): the target after it
dumpStepTarget(step, p, target) ==
    CASE step = "requests"  -> [target EXCEPT !.requests = p.requests]
      [] step = "rejects"   -> [target EXCEPT !.rejects = p.rejects]
      [] step = "failure"   -> [target EXCEPT !.failure = p.failure]
      [] step = "successed" -> [target EXCEPT !.successed = p.successed]
      [] step = "max"       -> [target EXCEPT !.max = p.max]
      [] step = "min"       -> [target EXCEPT !.min = p.min]
      [] step = "costs"     -> [target EXCEPT !.costs = p.costs]
      [] OTHER              -> target

\* a dump whose resets clear the request counter too
dumpStepSource_resetsRequests(step, p) ==
    CASE step = "resetMin" -> [p EXCEPT !.min = 0, !.requests = 0]
      [] step = "resetMax" -> [p EXCEPT !.max = 0]
      [] OTHER             -> p

\* one line of p.dump(target): the live point after it
dumpStepSource(step, p) ==
    CASE step = "resetMin" -> [p EXCEPT !.min = 0]
      [] step = "resetMax" -> [p EXCEPT !.max = 0]
      [] OTHER             -> p

\* the Go run time ended the program on an unsynchronised map access
Alive == "concurrent map read and map write" \notin panics

\* case <-timer.C, line 189: p, ok := a.points[key], read without the lock.
\* While a registration holds the lock the read races with its insertion:
\* it may read the map as it is, miss the entry, or be caught by the run time.
TaskLookup(t) ==
    /\ tasks[t].pc = "select"
    /\ tasks[t].pending
    /\ \E outcome \in (IF mu = "adding" THEN {"read", "missed", "fatal"}
                                         ELSE {"read"}) :
          /\ tasks' = [tasks EXCEPT
                ![t].pending = FALSE,
                ![t].pc = IF outcome = "read" /\ HasPoint(tasks[t].key)
                          THEN RecordSteps[1]
                          ELSE IF outcome = "fatal" THEN "panicked"
                          ELSE "select"]
          /\ panics' = IF outcome = "fatal"
                       THEN panics \cup {"concurrent map read and map write"}
                       ELSE panics
    /\ UNCHANGED <<points, recentlyPoints, mu, cancelled, ret, hist>>

\* one line of p.dump, lines 26-35
DumpStep(t) ==
    LET key == tasks[t].key
        interval == tasks[t].interval
        r == recentlyPoints[key][interval]
        step == tasks[t].pc
    IN  /\ \E i \in 1..(Len(RecordSteps) - 1) : RecordSteps[i] = step
        /\ recentlyPoints' = [recentlyPoints EXCEPT ![key][interval] =
              IF r.dumpCurr
              THEN [r EXCEPT !.current = dumpStepTarget(step, points[key], r.current)]
              ELSE [r EXCEPT !.prev = dumpStepTarget(step, points[key], r.prev)]]
        /\ points' = [points EXCEPT ![key] = dumpStepSource(step, @)]
        /\ tasks' = [tasks EXCEPT ![t].pc = StepAfter(step)]
        /\ UNCHANGED <<mu, cancelled, panics, ret, hist>>

\* the rest of r.record(p) after the dump: r.calc() if the dump went into
\* current, then the flip of dumpCurr (not reached when calc panics)
RecordEnd(t) ==
    LET key == tasks[t].key
        interval == tasks[t].interval
        r == recentlyPoints[key][interval]
    IN  /\ tasks[t].pc = "calc"
        /\ recentlyPoints' = [recentlyPoints EXCEPT ![key][interval] =
              IF r.dumpCurr
              THEN (IF calcPanics(r) THEN calc(r)
                    ELSE [calc(r) EXCEPT !.dumpCurr = FALSE])
              ELSE [r EXCEPT !.dumpCurr = TRUE]]
        /\ tasks' = [tasks EXCEPT
              ![t].pc = IF recordPanics(r) THEN "panicked" ELSE "select"]
        /\ panics' = IF recordPanics(r)
                     THEN panics \cup {"integer divide by zero"}
                     ELSE panics
        /\ hist' = histRecord(<<key, interval>>, r)
        /\ UNCHANGED <<points, mu, cancelled, ret>>

\* the task runner is stopped: the context of every task is done
StopAll ==
    /\ ~cancelled
    /\ cancelled' = TRUE
    /\ UNCHANGED <<points, recentlyPoints, mu, tasks, panics, ret, hist>>

----------------------------------------------------------------------------
(* The accessors: each takes the read lock, looks the window (or the point)  *)
(* up and returns one of its fields, or 0 when the lookup fails.             *)

\* an accessor that answers from the live point when it finds no window
GetRecentlyRequestCount_fromLivePoint(server, interval) ==
    IF server \notin DOMAIN recentlyPoints \/ interval \notin DOMAIN recentlyPoints[server]
    THEN (IF server \in DOMAIN points THEN points[server].requests ELSE 0)
    ELSE recentlyPoints[server][interval].requests

GetRecentlyRequestCount(server, interval) ==
    IF server \notin DOMAIN recentlyPoints THEN 0
    ELSE IF interval \notin DOMAIN recentlyPoints[server] THEN 0
    ELSE recentlyPoints[server][interval].requests

GetRecentlyMax(server, interval) ==
    IF server \notin DOMAIN recentlyPoints THEN 0
    ELSE IF interval \notin DOMAIN recentlyPoints[server] THEN 0
    ELSE recentlyPoints[server][interval].max

GetRecentlyMin(server, interval) ==
    IF server \notin DOMAIN recentlyPoints THEN 0
    ELSE IF interval \notin DOMAIN recentlyPoints[server] THEN 0
    ELSE recentlyPoints[server][interval].min

GetRecentlyAvg(server, interval) ==
    IF server \notin DOMAIN recentlyPoints THEN 0
    ELSE IF interval \notin DOMAIN recentlyPoints[server] THEN 0
    ELSE recentlyPoints[server][interval].avg

GetQPS(server, interval) ==
    IF server \notin DOMAIN recentlyPoints THEN 0
    ELSE IF interval \notin DOMAIN recentlyPoints[server] THEN 0
    ELSE recentlyPoints[server][interval].qps

GetRecentlyRejectCount(server, interval) ==
    IF server \notin DOMAIN recentlyPoints THEN 0
    ELSE IF interval \notin DOMAIN recentlyPoints[server] THEN 0
    ELSE recentlyPoints[server][interval].rejects

GetRecentlyRequestSuccessedCount(server, interval) ==
    IF server \notin DOMAIN recentlyPoints THEN 0
    ELSE IF interval \notin DOMAIN recentlyPoints[server] THEN 0
    ELSE recentlyPoints[server][interval].successed

GetRecentlyRequestFailureCount(server, interval) ==
    IF server \notin DOMAIN recentlyPoints THEN 0
    ELSE IF interval \notin DOMAIN recentlyPoints[server] THEN 0
    ELSE recentlyPoints[server][interval].failure

GetContinuousFailureCount(server) ==
    IF server \notin DOMAIN points THEN 0
    ELSE points[server].continuousFailure

WindowGetters ==
    {"GetRecentlyRequestCount", "GetRecentlyMax", "GetRecentlyMin",
     "GetRecentlyAvg", "GetQPS", "GetRecentlyRejectCount",
     "GetRecentlyRequestSuccessedCount", "GetRecentlyRequestFailureCount"}

Getters == WindowGetters \cup {"GetContinuousFailureCount"}

\* what the accessor named op returns
GetValue(op, server, interval) ==
    CASE op = "GetRecentlyRequestCount" -> GetRecentlyRequestCount(server, interval)
      [] op = "GetRecentlyMax" -> GetRecentlyMax(server, interval)
      [] op = "GetRecentlyMin" -> GetRecentlyMin(server, interval)
      [] op = "GetRecentlyAvg" -> GetRecentlyAvg(server, interval)
      [] op = "GetQPS" -> GetQPS(server, interval)
      [] op = "GetRecentlyRejectCount" -> GetRecentlyRejectCount(server, interval)
      [] op = "GetRecentlyRequestSuccessedCount" ->
            GetRecentlyRequestSuccessedCount(server, interval)
      [] op = "GetRecentlyRequestFailureCount" ->
            GetRecentlyRequestFailureCount(server, interval)
      [] op = "GetContinuousFailureCount" -> GetContinuousFailureCount(server)

\* a call of an accessor: RLock, the lookup, RUnlock (deferred)
Get(op, server, interval) ==
    /\ mu = "unlocked"
    /\ ret' = [found |-> IF op \in WindowGetters
                          THEN HasWindow(server, interval)
                          ELSE HasPoint(server),
                value |-> GetValue(op, server, interval)]
    /\ UNCHANGED <<points, recentlyPoints, mu, tasks, cancelled, panics, hist>>

----------------------------------------------------------------------------
(* The program *)

\* NewAnalysis: two empty maps, no task
Init ==
    /\ points = [k \in {} |-> newPoint]
    /\ recentlyPoints = [k \in {} |-> [i \in {} |-> newRecently(i)]]
    /\ mu = "unlocked"
    /\ tasks = <<>>
    /\ cancelled = FALSE
    /\ panics = {}
    /\ ret = [found |-> FALSE, value |-> 0]
    /\ hist = [events |-> 0,
               streak |-> [k \in Keys |-> 0],
               requested |-> [k \in Keys |-> 0],
               win |-> [w \in {} |-> newHistory(w[1])]]

\* the keys are interchangeable: of the behaviours that differ only by a
\* renaming of the keys, the one whose first point belongs to "a" is kept
FirstKey(key) == key = "a" \/ HasPoint("a")

\* AddRecentCount is called while the budget of events and windows lasts; a
\* registration that starts a goroutine comes before the runner is stopped
MayRegister(key, interval, maxEvents, maxWindows) ==
    \/ interval = 0 /\ FirstKey(key)
    \/ HasWindow(key, interval)
    \/ /\ Events < maxEvents
       /\ Cardinality(Windows) < maxWindows
       /\ FirstKey(key)
       /\ interval < 0 \/ ~cancelled

\* the hot path is called while the budget of events lasts
MayCall(key, maxEvents) == Events < maxEvents /\ FirstKey(key)

(* The whole program but its accessors *)
Next ==
    \/ \E key \in Keys : MayCall(key, MaxEvents) /\ Reject(key)
    \/ \E key \in Keys : MayCall(key, MaxEvents) /\ Failure(key)
    \/ \E key \in Keys : MayCall(key, MaxEvents) /\ Request(key)
    \/ \E key \in Keys, cost \in Costs :
          MayCall(key, MaxEvents) /\ Response(key, cost)
    \/ \E key \in Keys, interval \in Intervals :
          MayRegister(key, interval, MaxEvents, MaxWindows)
          /\ AddRecentCount(key, interval)
    \/ \E t \in 1..Len(tasks) : TimerFire(t)
    \/ \E t \in 1..Len(tasks) : Events < MaxEvents /\ TaskTick(t)
    \/ \E t \in 1..Len(tasks) : TaskCancel(t)
    \/ StopAll

Spec == Init /\ [][Next]_vars

(* The program with its accessors, before shutdown *)
NextRead ==
    \/ \E key \in Keys : MayCall(key, MaxReadEvents) /\ Reject(key)
    \/ \E key \in Keys : MayCall(key, MaxReadEvents) /\ Failure(key)
    \/ \E key \in Keys : MayCall(key, MaxReadEvents) /\ Request(key)
    \/ \E key \in Keys, cost \in Costs :
          MayCall(key, MaxReadEvents) /\ Response(key, cost)
    \/ \E key \in Keys, interval \in Intervals :
          MayRegister(key, interval, MaxReadEvents, MaxReadWindows)
          /\ AddRecentCount(key, interval)
    \/ \E t \in 1..Len(tasks) : TimerFire(t)
    \/ \E t \in 1..Len(tasks) : Events < MaxReadEvents /\ TaskTick(t)
    \/ \E op \in WindowGetters, server \in Keys, interval \in Intervals :
          Get(op, server, interval)
    \/ \E server \in Keys : Get("GetContinuousFailureCount", server, 0)

SpecRead == Init /\ [][NextRead]_vars

(* Steady traffic on the windows of one key: registrations, requests, ticks *)
NextSteady ==
    \/ \E interval \in Intervals :
          MayRegister("a", interval, MaxSteadyEvents, MaxWindows)
          /\ AddRecentCount("a", interval)
    \/ MayCall("a", MaxSteadyEvents) /\ HasPoint("a") /\ Request("a")
    \/ \E t \in 1..Len(tasks) : TimerFire(t)
    \/ \E t \in 1..Len(tasks) : Events < MaxSteadyEvents /\ TaskTick(t)

SpecSteady == Init /\ [][NextSteady]_vars

\* The scenario of one key with a one-second window: within one tick of the
\* window (after its first record, before its second), in any order,
\* Scenario.requests requests, Scenario.responses responses of 50ms each
\* (Scenario.cost, in nanoseconds) and Scenario.failures failures.
Scenario ==
    [key |-> "a", requests |-> 10, responses |-> 8, failures |-> 2,
     cost |-> 50000000]

ScenarioWindow == <<Scenario.key, Second>>

\* between the first record of the scenario's window and its second
WithinTick ==
    /\ HasWindow(Scenario.key, Second)
    /\ hist.win[ScenarioWindow].records = 1

NextScenario ==
    \/ ~HasWindow(Scenario.key, Second) /\ AddRecentCount(Scenario.key, Second)
    \/ /\ WithinTick
       /\ points[Scenario.key].requests < Scenario.requests
       /\ Request(Scenario.key)
    \/ /\ WithinTick
       /\ points[Scenario.key].successed < Scenario.responses
       /\ Response(Scenario.key, Scenario.cost)
    \/ /\ WithinTick
       /\ points[Scenario.key].failure < Scenario.failures
       /\ Failure(Scenario.key)
    \/ \E t \in 1..Len(tasks) : TimerFire(t)
    \/ \E t \in 1..Len(tasks) :
          hist.win[ScenarioWindow].records < ScenarioTicks /\ TaskTick(t)

SpecScenario == Init /\ [][NextScenario]_vars

\* The windows of one key: up to two windows of whole seconds on the key,
\* responses and ticks, the records of the two windows in any order.
WindowsKey == "a"
WindowsIntervals == {Second, 2 * Second}

NextWindows ==
    \/ \E interval \in WindowsIntervals :
          /\ Events < MaxWindowEvents
          /\ ~HasWindow(WindowsKey, interval)
          /\ AddRecentCount(WindowsKey, interval)
    \/ \E cost \in Costs :
          /\ Events < MaxWindowEvents
          /\ HasPoint(WindowsKey)
          /\ Response(WindowsKey, cost)
    \/ \E t \in 1..Len(tasks) : TimerFire(t)
    \/ \E t \in 1..Len(tasks) : Events < MaxWindowEvents /\ TaskTick(t)

SpecWindows == Init /\ [][NextWindows]_vars

\* The goroutines step by step: registrations (in two steps) of one-second
\* windows, the hot path on the key DumpKey, and the steps of the goroutine of
\* DumpKey's window, until the run time ends the program.  The ticker of a
\* window of the other key does not fire within the behaviour.
DumpKey == "a"
DumpIntervals == {Second}
DumpCosts == {50000000}

NextDump ==
    \/ Alive /\ Events < MaxDumpEvents /\ AddRecentCountLock
    \/ \E key \in Keys, interval \in DumpIntervals :
          Alive /\ FirstKey(key) /\ AddRecentCountUnderLock(key, interval)
    \/ /\ Alive /\ Events < MaxDumpEvents /\ HasPoint(DumpKey)
       /\ Reject(DumpKey)
    \/ /\ Alive /\ Events < MaxDumpEvents /\ HasPoint(DumpKey)
       /\ Failure(DumpKey)
    \/ /\ Alive /\ Events < MaxDumpEvents /\ HasPoint(DumpKey)
       /\ Request(DumpKey)
    \/ \E cost \in DumpCosts :
          /\ Alive /\ Events < MaxDumpEvents /\ HasPoint(DumpKey)
          /\ Response(DumpKey, cost)
    \/ \E t \in 1..Len(tasks) :
          Alive /\ tasks[t].key = DumpKey /\ TimerFire(t)
    \/ \E t \in 1..Len(tasks) :
          Alive /\ Events < MaxDumpEvents /\ TaskLookup(t)
    \/ \E t \in 1..Len(tasks) : Alive /\ DumpStep(t)
    \/ \E t \in 1..Len(tasks) : Alive /\ RecordEnd(t)

SpecDump == Init /\ [][NextDump]_vars

----------------------------------------------------------------------------
(* The claims *)

\* the goroutines started for the window (key, interval)
TasksOf(key, interval) ==
    {t \in 1..Len(tasks) : tasks[t].key = key /\ tasks[t].interval = interval}

\* the live point of key before a step, a fresh one if the key had none
PointBefore(key) == IF HasPoint(key) THEN points[key] ELSE newPoint

Max(a, b) == IF a >= b THEN a ELSE b

\* C1: for every key, known or not, each of Request, Reject, Failure and
\* Response completes normally, leaves a point for the key with its increment
\* applied to it, and releases the registry lock.
C1_HotPathTotal ==
    [][\A key \in Keys :
          /\ Request(key) =>
                /\ panics' = panics /\ mu' = "unlocked" /\ key \in DOMAIN points'
                /\ points'[key].requests = PointBefore(key).requests + 1
          /\ Reject(key) =>
                /\ panics' = panics /\ mu' = "unlocked" /\ key \in DOMAIN points'
                /\ points'[key].rejects = PointBefore(key).rejects + 1
          /\ Failure(key) =>
                /\ panics' = panics /\ mu' = "unlocked" /\ key \in DOMAIN points'
                /\ points'[key].failure = PointBefore(key).failure + 1
          /\ \A cost \in Costs : Response(key, cost) =>
                /\ panics' = panics /\ mu' = "unlocked" /\ key \in DOMAIN points'
                /\ points'[key].successed = PointBefore(key).successed + 1
      ]_vars

\* C2: a goroutine that has taken its cancellation signal (and stopped its
\* ticker) has left its loop: it is no longer at the select.
C2_CancelledTaskLeavesLoop ==
    \A t \in 1..Len(tasks) : tasks[t].stopped => tasks[t].pc # "select"

\* C3: once the goroutine of a window has handled its cancellation signal, no
\* further record is performed on that window.
C3_NoRecordAfterCancel ==
    [][\A t \in 1..Len(tasks) :
          tasks[t].stopped =>
             hist'.win[<<tasks[t].key, tasks[t].interval>>].records
               = hist.win[<<tasks[t].key, tasks[t].interval>>].records
      ]_vars

\* C4: after every recalculation of a window, GetQPS is the larger of the
\* request delta and the success delta, divided by the whole seconds of the
\* interval.
C4_QpsIsMaxOverSeconds ==
    \A w \in DOMAIN hist.win :
       hist.win[w].calcs = "done" =>
          GetQPS(w[1], w[2]) =
             GoDiv(Max(GetRecentlyRequestCount(w[1], w[2]),
                       GetRecentlyRequestSuccessedCount(w[1], w[2])),
                   GoDiv(w[2], Second))

\* C5: AddRecentCount with a zero or negative interval returns normally and
\* leaves the registry as it was: no point, no window, no goroutine.
C5_NonPositiveIntervalIsNoOp ==
    [][\A key \in Keys, interval \in Intervals :
          (interval <= 0 /\ AddRecentCount(key, interval)) =>
             /\ panics' = panics
             /\ UNCHANGED <<points, recentlyPoints, tasks>>
      ]_vars

\* C6: registration is idempotent.  After any calls of AddRecentCount there
\* is one goroutine for each (key, interval) pair registered in recentlyPoints
\* and none for any other pair; and registering a pair again leaves its window
\* (its snapshots and derived values) and the goroutines as they are.
OneTaskPerEntry ==
    \A key \in Keys, interval \in Intervals :
       Cardinality(TasksOf(key, interval)) =
          IF HasWindow(key, interval) THEN 1 ELSE 0

RegisteredAgain ==
    \A key \in Keys, interval \in Intervals :
       (HasWindow(key, interval) /\ AddRecentCount(key, interval)) =>
          /\ recentlyPoints'[key][interval] = recentlyPoints[key][interval]
          /\ tasks' = tasks

C6_OneTaskPerRegisteredPair ==
    OneTaskPerEntry /\ [][OneTaskPerEntry' /\ RegisteredAgain]_vars

\* What does hold of registration: the pairs registered with a positive
\* interval have one goroutine each, the others none, and registering a pair
\* again changes nothing.
OneTaskPerTickingWindow ==
    \A key \in Keys, interval \in Intervals :
       Cardinality(TasksOf(key, interval)) =
          IF HasWindow(key, interval) /\ interval > 0 THEN 1 ELSE 0

RegisterIdempotentForPositiveIntervals ==
    OneTaskPerTickingWindow
    /\ [][OneTaskPerTickingWindow' /\ RegisteredAgain]_vars

\* C7: in the scenario, once the two snapshots of the window bracket the
\* calls (none before the first, all before the second) and the window is
\* recalculated, GetAvgLatencyMs is 50.
C7_ScenarioAvgIs50 ==
    LET r == recentlyPoints[Scenario.key][Second]
    IN  (/\ HasWindow(Scenario.key, Second)
         /\ hist.win[ScenarioWindow].calcs = "done"
         /\ r.prev.requests = 0 /\ r.prev.successed = 0 /\ r.prev.failure = 0
         /\ r.current.requests = Scenario.requests
         /\ r.current.successed = Scenario.responses
         /\ r.current.failure = Scenario.failures)
        => GetRecentlyAvg(Scenario.key, Second) = 50

\* C8: GetContinuousFailureCount(key) is the number of Failure(key) calls
\* completed since the last completed Response(key, _), or since the key was
\* created; nothing else changes it.
C8_ContinuousFailureIsStreak ==
    \A key \in Keys : GetContinuousFailureCount(key) = hist.streak[key]

\* C8, its case: a streak of two failures cleared by a response
C8_Witness ==
    \E key \in DOMAIN points :
       /\ points[key].failure >= 2
       /\ points[key].successed >= 1
       /\ GetContinuousFailureCount(key) = 0

\* C9: while exactly R requests fall between every two consecutive ticks of a
\* window, GetRecentlyRequestCount is 0 before the first recalculation and R
\* after every recalculation.
C9_SteadyRequestCount ==
    \A w \in DOMAIN hist.win :
       /\ hist.win[w].calcs = "never" =>
             GetRecentlyRequestCount(w[1], w[2]) = 0
       /\ (hist.win[w].calcs # "never" /\ hist.win[w].gaps /\ hist.win[w].steady) =>
             GetRecentlyRequestCount(w[1], w[2]) = hist.win[w].rate

\* C9, its case: two recalculations at a steady rate of at least one request
C9_Witness ==
    \E w \in DOMAIN hist.win :
       /\ hist.win[w].records >= 4
       /\ hist.win[w].calcs = "done"
       /\ hist.win[w].steady
       /\ hist.win[w].rate >= 1
       /\ GetRecentlyRequestCount(w[1], w[2]) = hist.win[w].rate

\* C10: an accessor whose lookup finds no window (no point, for
\* GetContinuousFailureCount) returns 0, and no accessor call changes anything
\* but the value it returns.
C10_ReadsAreZeroAndPure ==
    [][ret' # ret =>
          /\ ~ret'.found => ret'.value = 0
          /\ UNCHANGED <<points, recentlyPoints, mu, tasks, cancelled, panics, hist>>
      ]_vars

\* C10, its case: an accessor has returned 0 for an interval that is not
\* registered, on a key whose registered window holds a request
C10_Witness ==
    /\ ~ret.found /\ ret.value = 0
    /\ \E w \in DOMAIN hist.win : GetRecentlyRequestCount(w[1], w[2]) > 0

\* the buffer a window's last record wrote, and the one written before it
LastBuffer(w) ==
    IF hist.win[w].curAt > hist.win[w].prevAt
    THEN recentlyPoints[w[1]][w[2]].current
    ELSE recentlyPoints[w[1]][w[2]].prev

EarlierBuffer(w) ==
    IF hist.win[w].curAt > hist.win[w].prevAt
    THEN recentlyPoints[w[1]][w[2]].prev
    ELSE recentlyPoints[w[1]][w[2]].current

\* a success was recorded before the earlier of the window's last two
\* snapshots and none between the two
NoSuccessBetweenSnapshots(w) ==
    /\ hist.win[w].records >= 2
    /\ EarlierBuffer(w).successed >= 1
    /\ LastBuffer(w).successed = EarlierBuffer(w).successed

\* a record copies the live point's cumulative fields into its buffer, leaves
\* the live cumulative counters as they are and sets the live max and min to 0
SnapshotFrame ==
    \A t \in 1..Len(tasks) :
       LET key == tasks[t].key
           interval == tasks[t].interval
       IN  (TaskTick(t) /\ HasPoint(key)) =>
              LET target == IF recentlyPoints[key][interval].dumpCurr
                            THEN recentlyPoints'[key][interval].current
                            ELSE recentlyPoints'[key][interval].prev
              IN  /\ points'[key] = [points[key] EXCEPT !.max = 0, !.min = 0]
                  /\ target.requests = points[key].requests
                  /\ target.rejects = points[key].rejects
                  /\ target.failure = points[key].failure
                  /\ target.successed = points[key].successed
                  /\ target.costs = points[key].costs
                  /\ target.max = points[key].max
                  /\ target.min = points[key].min

\* C11, as claimed: a snapshot copies the cumulative fields, leaves the live
\* counters unchanged and resets the live max and min; and when a success was
\* recorded before a snapshot of a window and none before the window's next
\* snapshot, the window's derived max and min are 0 after that next snapshot.
C11_ExtremesZeroAfterSecondSnapshot ==
    /\ [][SnapshotFrame]_vars
    /\ [](\A w \in DOMAIN hist.win :
             NoSuccessBetweenSnapshots(w) =>
                /\ GetRecentlyMax(w[1], w[2]) = 0
                /\ GetRecentlyMin(w[1], w[2]) = 0)

\* C11, amended: a snapshot copies the cumulative fields, leaves the live
\* counters unchanged and resets the live max and min; and when a success was
\* recorded before a snapshot of a window and none before the window's next
\* snapshot, the buffer that next snapshot wrote holds max = min = 0, and the
\* derived max and min are 0 after it if it wrote the current buffer (the
\* snapshots that recalculate).
C11_SecondSnapshotHoldsZeroExtremes ==
    /\ [][SnapshotFrame]_vars
    /\ [](\A w \in DOMAIN hist.win :
             NoSuccessBetweenSnapshots(w) =>
                /\ LastBuffer(w).max = 0
                /\ LastBuffer(w).min = 0
                /\ hist.win[w].curAt > hist.win[w].prevAt =>
                      /\ GetRecentlyMax(w[1], w[2]) = 0
                      /\ GetRecentlyMin(w[1], w[2]) = 0)

\* C11, its case: after a success of 50ms that a window recalculated, the
\* window took two snapshots with no success between them, the second one
\* recalculating
C11_Witness ==
    \E w \in DOMAIN hist.win :
       /\ NoSuccessBetweenSnapshots(w)
       /\ hist.win[w].records >= 4
       /\ hist.win[w].curAt > hist.win[w].prevAt
       /\ EarlierBuffer(w).costs >= 50000000
       /\ points[w[1]].max = 0
       /\ GetRecentlyMax(w[1], w[2]) = 0

\* the buffer the goroutine t is writing, or will write next
TargetOf(t) ==
    LET r == recentlyPoints[tasks[t].key][tasks[t].interval]
    IN  IF r.dumpCurr THEN r.current ELSE r.prev

\* C12: for a key with a point, whatever the interleaving of the hot path with
\* the steps of the snapshots, the live requests counter is the number of
\* completed Request(key) calls, and no step decreases it.
C12_RequestsCountCompletedCalls ==
    /\ [](\A key \in DOMAIN points :
             points[key].requests = hist.requested[key])
    /\ [][\A key \in DOMAIN points :
             points'[key].requests >= points[key].requests]_vars

\* C12, its case: a snapshot about to reset the live extremes has copied one
\* request, and a second Request has completed since the copy
C12_Witness ==
    \E t \in 1..Len(tasks) :
       /\ tasks[t].pc = "resetMax"
       /\ TargetOf(t).requests >= 1
       /\ points[tasks[t].key].requests > TargetOf(t).requests
       /\ points[tasks[t].key].requests = hist.requested[tasks[t].key]

\* C13: the windows of a key evolve independently of one another.  A dump
\* changes nothing of the live point but its max and min, so the deltas of a
\* window cannot depend on the records of another; the claim is that its max
\* and min do not either: every window registered before its key's first
\* success reports the derived max and min it would report if no other
\* window recorded the key's point.
C13_WindowsIndependent ==
    \A w \in DOMAIN hist.win :
       hist.win[w].fromStart =>
          /\ GetRecentlyMax(w[1], w[2]) = hist.win[w].ownDerivedMax
          /\ GetRecentlyMin(w[1], w[2]) = hist.win[w].ownDerivedMin

\* C14: every access of the registry's maps is made under the registry lock,
\* the lookup of the live point by a window's goroutine included: no such
\* lookup runs while a registration holds the lock for its insertions.
C14_LookupsUnderLock ==
    [][\A t \in 1..Len(tasks) : TaskLookup(t) => mu # "adding"]_vars

\* the derived fields of a window
Derived(r) ==
    <<r.qps, r.requests, r.successed, r.failure, r.rejects, r.max, r.min, r.avg>>

\* C15: the records of a window alternate their destination, the first one
\* after registration writing prev: the odd calls write prev and leave current
\* and every derived field as they are; the even calls write current and
\* recalculate, leaving prev as it is and the derived fields those that calc
\* gives for the two buffers.
C15_RecordAlternatesBuffers ==
    [][\A t \in 1..Len(tasks) :
          LET key == tasks[t].key
              interval == tasks[t].interval
              r == recentlyPoints[key][interval]
              after == recentlyPoints'[key][interval]
              n == hist.win[<<key, interval>>].records + 1
          IN  (TaskTick(t) /\ HasPoint(key)) =>
                 IF n % 2 = 1
                 THEN /\ after.prev = dumpTarget(points[key], r.prev)
                      /\ after.current = r.current
                      /\ Derived(after) = Derived(r)
                 ELSE /\ after.current = dumpTarget(points[key], r.current)
                      /\ after.prev = r.prev
                      /\ Derived(after) = Derived(calc(after))
      ]_vars

\* C15, its case: the third record of a window has written prev and left the
\* derived values of the recalculation before it, which saw a success
C15_Witness ==
    \E w \in DOMAIN hist.win :
       /\ hist.win[w].records = 3
       /\ hist.win[w].prevAt = 3
       /\ recentlyPoints[w[1]][w[2]].dumpCurr
       /\ recentlyPoints[w[1]][w[2]].prev.successed >= 1
       /\ GetRecentlyRequestSuccessedCount(w[1], w[2]) >= 1
       /\ GetRecentlyMax(w[1], w[2]) > 0

\* C16, as claimed: the span of a recalculation, the number of ticks between
\* the snapshot in prev and the snapshot in current that it subtracts,
\* alternates between one and two ticks from one recalculation to the next.
C16_SpanAlternates ==
    \A w \in DOMAIN hist.win :
       hist.win[w].spanBefore > 0 =>
          /\ hist.win[w].span \in {1, 2}
          /\ hist.win[w].spanBefore \in {1, 2}
          /\ hist.win[w].span # hist.win[w].spanBefore

\* C16, amended: every recalculation subtracts the snapshot of the tick just
\* before it: its span is one tick, whatever the parity, and it happens on
\* every second tick.
C16_SpanIsOneTick ==
    \A w \in DOMAIN hist.win :
       /\ hist.win[w].calcs # "never" =>
             /\ hist.win[w].span = 1
             /\ hist.win[w].curAt % 2 = 0
       /\ hist.win[w].spanBefore > 0 => hist.win[w].spanBefore = 1

\* C16, its case: two recalculations of a window, the second over a tick
\* with a request in it
C16_Witness ==
    \E w \in DOMAIN hist.win :
       /\ hist.win[w].records >= 4
       /\ hist.win[w].curAt = 4
       /\ hist.win[w].prevAt = 3
       /\ hist.win[w].spanBefore = 1
       /\ hist.win[w].span = 1
       /\ GetRecentlyRequestCount(w[1], w[2]) >= 1

\* C17: in every state, whatever the interleaving of the hot path with the
\* steps of the snapshots, the derived request, success, failure and reject
\* deltas of every window are >= 0, and so are its derived max and min.
C17_DerivedNonNegative ==
    \A w \in Windows :
       /\ GetRecentlyRequestCount(w[1], w[2]) >= 0
       /\ GetRecentlyRequestSuccessedCount(w[1], w[2]) >= 0
       /\ GetRecentlyRequestFailureCount(w[1], w[2]) >= 0
       /\ GetRecentlyRejectCount(w[1], w[2]) >= 0
       /\ GetRecentlyMax(w[1], w[2]) >= 0
       /\ GetRecentlyMin(w[1], w[2]) >= 0

\* C17, its case: a window recalculated over a tick that saw a request and a
\* success
C17_Witness ==
    \E w \in DOMAIN hist.win :
       /\ hist.win[w].calcs = "done"
       /\ GetRecentlyRequestCount(w[1], w[2]) >= 1
       /\ GetRecentlyRequestSuccessedCount(w[1], w[2]) >= 1
       /\ GetRecentlyMax(w[1], w[2]) >= 1

\* C18: for every window registered with a positive interval, one shorter
\* than a second included, every recalculation triggered by a tick completes
\* normally: none panics on the division by the period in whole seconds, and
\* that divisor is never zero.
C18_RecalculateNeverDividesByZero ==
    /\ "integer divide by zero" \notin panics
    /\ \A w \in DOMAIN hist.win :
          hist.win[w].calcs # "never" =>
             /\ hist.win[w].calcs = "done"
             /\ periodSeconds(recentlyPoints[w[1]][w[2]]) # 0

\* no goroutine is in the middle of a record of the window
AtRest(w) ==
    \A t \in TasksOf(w[1], w[2]) : tasks[t].pc \in {"select", "panicked"}

\* C19: in every state, whatever the interleaving of Response with the steps
\* of the snapshots, the derived min of a window is at most its derived max,
\* and so is the min of each snapshot buffer at most its max (once the
\* snapshot writing it is complete).
C19_MinAtMostMax ==
    \A w \in Windows :
       LET r == recentlyPoints[w[1]][w[2]]
       IN  /\ GetRecentlyMin(w[1], w[2]) <= GetRecentlyMax(w[1], w[2])
           /\ AtRest(w) => /\ r.prev.min <= r.prev.max
                           /\ r.current.min <= r.current.max

\* the sums that n latencies can make
RECURSIVE CostSums(_)
CostSums(n) ==
    IF n = 0 THEN {0}
    ELSE {sum + cost : sum \in CostSums(n - 1), cost \in Costs}

\* C20: every completed snapshot is consistent with one instant of the live
\* point; in particular the costs it holds is the sum of the latencies of
\* exactly the successes it counts, so a sum of that many latencies (it is 0
\* for a snapshot that counts no success), even when Response calls
\* interleave with the snapshot.
C20_SnapshotOfOneInstant ==
    \A w \in Windows :
       LET r == recentlyPoints[w[1]][w[2]]
       IN  AtRest(w) => /\ r.prev.costs \in CostSums(r.prev.successed)
                        /\ r.current.costs \in CostSums(r.current.successed)

====
